---- MODULE Spec2Model ----
(***************************************************************************)
(* A model of gopro2gpx.py: the GPMF record loop of gopro_binary_to_csv    *)
(* (one step per header read, per value of a record, and per padding       *)
(* read); the step that finds the stream at its end also runs the          *)
(* timestamp interpolation over the stored sessions and returns.           *)
(*                                                                         *)
(* The input stream is a BytesIO.  Every byte is read exactly once and in  *)
(* order, so the content of the stream is chosen when it is read: each     *)
(* read either returns all the bytes asked for, or fewer, and then the     *)
(* stream is exhausted and every later read returns nothing.               *)
(*                                                                         *)
(* Further specifications apply the interpolation to lists of stored      *)
(* sessions (SpecInterp), call the function on one stream after another    *)
(* (SpecFiles), apply make_gpx to lists of points (SpecGpx) and run the     *)
(* script on a command line (SpecMain).                                    *)
(*                                                                         *)
(* Floats are modelled as exact fractions (float rounding is not           *)
(* modelled); datetimes as whole microseconds since 2021-06-15T12:00:00Z.  *)
(***************************************************************************)
EXTENDS Integers, Sequences, FiniteSets, TLC

\* ------------------------------------------------------------------ bounds
\* Number of record headers one stream may hold.
MaxRecords == 6
\* Sessions and samples per session of the lists the interpolator is run on.
MaxSessions == 2
MaxSamples == 5
\* Arguments on the command line, after the name of the script.
MaxArgs == 3
\* Points handed to make_gpx.
MaxPoints == 3

\* ------------------------------------------------------- program constants
label_length == 4
desc_length == 4
\* datetime.timedelta(seconds=1), in microseconds
Second == 1000000
\* bytes of one GPS5 value, '>iiiii'
Gps5Size == 20
\* the shortest text '%y%m%d%H%M%S.%f' matches, e.g. "2161512.0"
MinStampLen == 9

\* ------------------------------------------------------------------ inputs
\* The headers of the stream: label, type byte ("0" for the zero byte, "x" for
\* any other), val_size and num_values.
Shapes ==
    { <<"SCAL", "x", 4, 4>>, <<"SCAL", "x", 2, 1>>,
      <<"SCAL", "x", 3, 1>>, <<"SCAL", "x", 3, 0>>,
      <<"GPS5", "x", 20, 1>>, <<"GPS5", "x", 20, 2>>,
      <<"GPS5", "x", 4, 1>>, <<"GPS5", "x", 4, 0>>,
      <<"GPSU", "x", 19, 1>>, <<"GPSU", "x", 3, 3>>,
      <<"GPSF", "x", 4, 1>>, <<"GPSF", "x", 2, 1>>,
      <<"GPSP", "x", 2, 1>>,
      <<"EMPT", "x", 4, 1>>, <<"EMPT", "x", 1, 2>>,
      <<"STNM", "x", 3, 1>>,
      <<"DEVC", "0", 1, 4>>, <<"STRM", "0", 4, 0>> }

\* The values the SCAL records of the stream may hold.
ScalPayloads == { <<1, 1, 1, 1>>, <<10, 100, 1, 1000>>, <<10, 100, 1, 0>>, <<10>>, <<>> }
\* Values a GPSF record may hold.
FixVals == {0, 2, 3}
\* Values a GPSP record may hold.
AccVals == {100, 500}
\* The GPS5 values (lat, lon, alt, speed, speed3d) of the stream.
Raws == { <<100000, 200000, 0, 500, 0>>, <<100010, 200010, 0, 520, 0>> }
\* The GPSU texts of the stream, as their fields; the date is 210615.
Stamps == { [h |-> 12, m |-> 0, s |-> 0, f |-> 0],
            [h |-> 12, m |-> 0, s |-> 2, f |-> 0] }

VARIABLES
    pc,              \* "header", "values", "done", "error"
    pos,             \* gopro_binary.tell() modulo 4: the reader's alignment
    eof,             \* the stream is exhausted: a read came back short
    nrec,            \* headers read so far
    cur,             \* the record being processed (label_string, desc, loop index)
    scales,
    gps_fix,
    gps_accuracy,
    okay_to_record,
    data,
    current_data,
    csv_data,        \* the returned list; <<>> until the function returns
    err,             \* the exception that ended the run, "none" otherwise
    last,            \* what the last step read: [op, want, got]
    scal_seen,       \* the values of the last SCAL record the stream held
    scen,            \* how many records of the round trip scenario were read
    again,           \* a stream was parsed by an earlier call of the function
    argv,            \* sys.argv
    mpc,             \* __main__: "idle", "main", "loop", "make_gpx", "exit", "done", "error"
    video,           \* the place in sys.argv of the video of the loop of line 173
    points,
    fd,              \* the output file: whether it was opened, and what was printed
    merr             \* the exception that ended __main__, "none" otherwise

vars == <<pc, pos, eof, nrec, cur, scales, gps_fix, gps_accuracy,
          okay_to_record, data, current_data, csv_data, err, last,
          scal_seen, scen, again, argv, mpc, video, points, fd, merr>>

\* The locals of gopro_binary_to_csv, and what the model records of a call.
vars_locals == <<pc, pos, eof, nrec, cur, scales, gps_fix, gps_accuracy,
                 okay_to_record, data, current_data, csv_data, err, last,
                 scal_seen, scen>>

\* What lives outside a call of gopro_binary_to_csv.
caller == <<again, argv, mpc, video, points, fd, merr>>

\* ----------------------------------------------------------------- helpers
Abs(x) == IF x < 0 THEN -x ELSE x

RECURSIVE GCD(_, _)
GCD(a, b) == IF b = 0 THEN a ELSE GCD(b, a % b)

\* float(n) / d for d # 0, as a fraction in lowest terms.
Frac(n, d) ==
    LET g == GCD(Abs(n), Abs(d))
        sgn == IF d < 0 THEN -1 ELSE 1
    IN  [num |-> sgn * (n \div g), den |-> sgn * (d \div g)]

\* timedelta / int with the quotient cut to a whole microsecond.
DivideAndTruncate(a, b) == a \div b

\* timedelta / int: the quotient rounded to the nearest microsecond, ties to
\* even (datetime's _divide_and_round), for b > 0.
DivideAndRound(a, b) ==
    LET q == a \div b
        r == a % b
    IN  IF 2 * r > b \/ (2 * r = b /\ q % 2 = 1) THEN q + 1 ELSE q

\* datetime.strptime(text, '%y%m%d%H%M%S.%f'), microseconds since the epoch
\* of the model.
strptime(t) == ((t.h - 12) * 3600 + t.m * 60 + t.s) * Second + t.f

\* strftime("%Y-%m-%dT%H:%M:%SZ"): the fields down to the second; the
\* microseconds are dropped.
strftime(us) ==
    LET secs == us \div Second
    IN  [h |-> 12 + secs \div 3600, m |-> (secs % 3600) \div 60, s |-> secs % 60]

\* The sizes a read of n bytes may return: all of them, or, where the stream
\* ends, half of them or none.
Avail(n) == IF eof THEN {0} ELSE {0, n \div 2, n}

\* The reader's alignment after got more bytes.
Move(p, got) == (p + got) % 4

\* current_data = {}
EmptyDict == <<>>

\* The output file before line 178 opens it.
NotOpened == [opened |-> FALSE, text |-> <<>>]

\* gopro_binary_to_csv is applied to a stream on its own: no __main__ runs.
NoCaller ==
    /\ again = FALSE
    /\ argv = <<>>
    /\ mpc = "idle"
    /\ video = 0
    /\ points = <<>>
    /\ fd = NotOpened
    /\ merr = "none"

NoRecord == [label |-> "none", data_type |-> "x", val_size |-> 0, num_values |-> 0,
             idx |-> 0, consumed |-> 0, payload |-> <<>>]

Last(op, want, got) == [op |-> op, want |-> want, got |-> got]

\* -------------------------------------------- the round trip scenario (ghost)
Scenario ==
    << [label |-> "SCAL", vals |-> <<1, 1, 1, 1>>],
       [label |-> "GPSU", vals |-> << [h |-> 12, m |-> 0, s |-> 0, f |-> 0] >>],
       [label |-> "GPSF", vals |-> <<3>>],
       [label |-> "GPSP", vals |-> <<100>>],
       [label |-> "GPS5", vals |-> << <<100000, 200000, 0, 500, 0>>,
                                      <<100010, 200010, 0, 520, 0>> >>],
       [label |-> "GPSU", vals |-> << [h |-> 12, m |-> 0, s |-> 2, f |-> 0] >>] >>

\* The scenario's progress when a header is read: the record is the next one
\* of the scenario, or the stream is another one.
ScenHeader(c) ==
    IF /\ scen >= 0 /\ scen < Len(Scenario)
       /\ c.data_type # "0"
       /\ c.label = Scenario[scen + 1].label
       /\ c.num_values = Len(Scenario[scen + 1].vals)
    THEN scen ELSE -1

\* When value v of the current record is read.
ScenValue(v) ==
    IF scen >= 0 /\ v = Scenario[scen + 1].vals[cur.idx + 1] THEN scen ELSE -1

\* When the current record has been read.
ScenPad == IF scen >= 0 THEN scen + 1 ELSE -1

Init ==
    /\ pc = "header"
    /\ pos = 0
    /\ eof = FALSE
    /\ nrec = 0
    /\ cur = NoRecord
    /\ scales = <<1, 1, 1, 1>>
    /\ gps_fix = 0
    /\ gps_accuracy = 9999
    /\ okay_to_record = FALSE
    /\ data = <<>>
    /\ current_data = EmptyDict
    /\ csv_data = <<>>
    /\ err = "none"
    /\ last = Last("init", 0, 0)
    /\ scal_seen = <<1, 1, 1, 1>>
    /\ scen = 0
    /\ NoCaller

\* An uncaught exception: the function returns nothing.
Raise(e) ==
    /\ pc' = "error"
    /\ err' = e
    /\ scen' = -1

\* ------------------------------------------------------------ record reader
Header(shape, payload) ==
    [label |-> shape[1], data_type |-> shape[2], val_size |-> shape[3],
     num_values |-> shape[4], idx |-> 0, consumed |-> 0, payload |-> payload]

\* Lines 53-55: the type byte is zero; nothing more is read for this record.
ReadHeaderZero ==
    /\ pc = "header" /\ ~eof /\ nrec < MaxRecords
    /\ \E shape \in Shapes :
        /\ shape[2] = "0"
        /\ cur' = Header(shape, <<>>)
    /\ pos' = Move(pos, label_length + desc_length)
    /\ nrec' = nrec + 1
    /\ last' = Last("header", label_length + desc_length, label_length + desc_length)
    /\ scen' = -1
    /\ UNCHANGED <<pc, eof, scales, gps_fix, gps_accuracy, okay_to_record,
                   data, current_data, csv_data, err, scal_seen>>
    /\ UNCHANGED caller

\* Lines 57-59: an EMPT record; four bytes are read and dropped.
ReadHeaderEmpt ==
    /\ pc = "header" /\ ~eof /\ nrec < MaxRecords
    /\ \E shape \in Shapes, got \in Avail(4) :
        /\ shape[2] # "0"
        /\ shape[1] = "EMPT"
        /\ cur' = [Header(shape, <<>>) EXCEPT !.consumed = got]
        /\ pos' = Move(pos, label_length + desc_length + got)
        /\ eof' = (got < 4)
        /\ last' = Last("EMPT", 4, got)
    /\ nrec' = nrec + 1
    /\ scen' = -1
    /\ UNCHANGED <<pc, scales, gps_fix, gps_accuracy, okay_to_record,
                   data, current_data, csv_data, err, scal_seen>>
    /\ UNCHANGED caller

\* Lines 61-67 and 75-76: any other record; the loop over its values starts.
\* A SCAL record empties the scales first.
ReadHeaderRecord ==
    /\ pc = "header" /\ ~eof /\ nrec < MaxRecords
    /\ \E shape \in Shapes :
        /\ shape[2] # "0"
        /\ shape[1] # "EMPT"
        /\ \E payload \in (IF shape[1] = "SCAL"
                            THEN {p \in ScalPayloads : Len(p) = shape[4]}
                            ELSE { <<>> }) :
             /\ cur' = Header(shape, payload)
             /\ scal_seen' = IF shape[1] = "SCAL" THEN payload ELSE scal_seen
             /\ scen' = ScenHeader(Header(shape, payload))
        /\ scales' = IF shape[1] = "SCAL" THEN <<>> ELSE scales
    /\ pos' = Move(pos, label_length + desc_length)
    /\ nrec' = nrec + 1
    /\ pc' = "values"
    /\ last' = Last("header", label_length + desc_length, label_length + desc_length)
    /\ UNCHANGED <<eof, gps_fix, gps_accuracy, okay_to_record,
                   data, current_data, csv_data, err>>
    /\ UNCHANGED caller

InLoop(label) ==
    /\ pc = "values"
    /\ cur.label = label
    /\ cur.idx < cur.num_values

\* One value of the current record was read, of got bytes.
Advance(got) ==
    [cur EXCEPT !.idx = @ + 1, !.consumed = @ + got]

\* A read inside the loop body: the reader moves by what it got.
Read(op, want, got) ==
    /\ pos' = Move(pos, got)
    /\ eof' = (eof \/ got < want)
    /\ last' = Last(op, want, got)

\* Lines 69-74 with a plain else for the four byte entries.
ScalWidthElse(val_size) ==
    IF val_size = 2 THEN 2 ELSE 4

\* Lines 69-74: the bytes read for one SCAL entry of val_size bytes; 0 when
\* the size is rejected.
ScalWidth(val_size) ==
    IF val_size = 2 THEN 2 ELSE IF val_size = 4 THEN 4 ELSE 0

\* Lines 79-81: the size a GPS5 value must have.
Gps5SizeOk(val_size) == val_size = Gps5Size

\* Lines 68-74: one entry of a SCAL record.
ScalValue ==
    /\ InLoop("SCAL")
    /\ IF ScalWidth(cur.val_size) # 0
       THEN \E got \in Avail(ScalWidth(cur.val_size)) :
              /\ Read("SCAL", ScalWidth(cur.val_size), got)
              /\ IF got < ScalWidth(cur.val_size)
                 THEN /\ Raise("struct.error")
                      /\ UNCHANGED <<cur, scales>>
                 ELSE LET v == cur.payload[cur.idx + 1]
                      IN  /\ scales' = Append(scales, v)
                          /\ cur' = Advance(got)
                          /\ scen' = ScenValue(v)
                          /\ UNCHANGED <<pc, err>>
       ELSE /\ Raise("Exception")
            /\ last' = Last("SCAL", 0, 0)
            /\ UNCHANGED <<pos, eof, cur, scales>>
    /\ UNCHANGED <<nrec, gps_fix, gps_accuracy, okay_to_record, data,
                   current_data, csv_data, scal_seen>>
    /\ UNCHANGED caller

\* ----------------------------------------------------------- tag interpreter
\* Lines 84-88 with the speed divided by the scale of its own position in
\* the GPS5 value, scales[2].
RecordSampleSpeedIndex(raw, okay, scl, cd) ==
    IF ~okay THEN [err |-> "none", current_data |-> cd]
    ELSE IF Len(scl) < 3 THEN [err |-> "IndexError", current_data |-> cd]
    ELSE IF scl[1] = 0 \/ scl[2] = 0 \/ scl[3] = 0
         THEN [err |-> "ZeroDivisionError", current_data |-> cd]
    ELSE IF "gps_data" \notin DOMAIN cd THEN [err |-> "KeyError", current_data |-> cd]
    ELSE [err |-> "none",
          current_data |->
            [cd EXCEPT !.gps_data =
                Append(@, [latitude  |-> Frac(raw[1], scl[1]),
                           longitude |-> Frac(raw[2], scl[2]),
                           speedmps  |-> Frac(raw[4], scl[3])])]]

\* Lines 84-88: the sample is recorded when okay_to_record holds.  The result
\* is the exception raised ("none" when there is none) and current_data.
RecordSample(raw, okay, scl, cd) ==
    IF ~okay THEN [err |-> "none", current_data |-> cd]
    ELSE IF Len(scl) < 1 THEN [err |-> "IndexError", current_data |-> cd]
    ELSE IF scl[1] = 0 THEN [err |-> "ZeroDivisionError", current_data |-> cd]
    ELSE IF Len(scl) < 2 THEN [err |-> "IndexError", current_data |-> cd]
    ELSE IF scl[2] = 0 THEN [err |-> "ZeroDivisionError", current_data |-> cd]
    ELSE IF Len(scl) < 4 THEN [err |-> "IndexError", current_data |-> cd]
    ELSE IF scl[4] = 0 THEN [err |-> "ZeroDivisionError", current_data |-> cd]
    ELSE IF "gps_data" \notin DOMAIN cd THEN [err |-> "KeyError", current_data |-> cd]
    ELSE [err |-> "none",
          current_data |->
            [cd EXCEPT !.gps_data =
                Append(@, [latitude  |-> Frac(raw[1], scl[1]),
                           longitude |-> Frac(raw[2], scl[2]),
                           speedmps  |-> Frac(raw[4], scl[4])])]]

\* Line 109 with the bound of the accuracy off by one.
RecomputeLax(fix, acc) == fix \in {2, 3} /\ acc <= 500

\* Line 109.
Recompute(fix, acc) == fix \in {2, 3} /\ acc < 500

\* Lines 77-88 and 109: one value of a GPS5 record.
Gps5Value ==
    /\ InLoop("GPS5")
    /\ IF ~Gps5SizeOk(cur.val_size)
       THEN /\ Raise("Exception")
            /\ last' = Last("GPS5", 0, 0)
            /\ UNCHANGED <<pos, eof, cur, current_data, okay_to_record>>
       ELSE \E got \in Avail(cur.val_size) :
              /\ Read("GPS5", cur.val_size, got)
              /\ IF got < cur.val_size
                 THEN /\ Raise("struct.error")
                      /\ UNCHANGED <<cur, current_data, okay_to_record>>
                 ELSE \E raw \in Raws :
                        LET r == RecordSample(raw, okay_to_record, scales, current_data)
                        IN  IF r.err # "none"
                            THEN /\ Raise(r.err)
                                 /\ UNCHANGED <<cur, current_data, okay_to_record>>
                            ELSE /\ current_data' = r.current_data
                                 /\ cur' = Advance(got)
                                 /\ okay_to_record' = Recompute(gps_fix, gps_accuracy)
                                 /\ scen' = ScenValue(raw)
                                 /\ UNCHANGED <<pc, err>>
    /\ UNCHANGED <<nrec, scales, gps_fix, gps_accuracy, data, csv_data, scal_seen>>
    /\ UNCHANGED caller

\* Lines 91-92 without the test for samples.
StoreSessionAlways(d, cd) ==
    IF DOMAIN cd # {} THEN Append(d, cd) ELSE d

\* Lines 91-92 with the test for samples passed by a session that has none
\* to show: the empty current_data of line 44 is stored too.
StoreSessionUnguarded(d, cd) ==
    IF DOMAIN cd = {} \/ cd.gps_data # <<>> THEN Append(d, cd) ELSE d

\* Lines 91-92: the current session is stored when it holds a sample.
StoreSession(d, cd) ==
    IF DOMAIN cd # {} /\ cd.gps_data # <<>> THEN Append(d, cd) ELSE d

\* Lines 89-95 and 109: one value of a GPSU record; each reads data_length
\* bytes.  A text shorter than any timestamp raises ValueError; a longer one
\* (cut short or not) parses or raises ValueError, by its content.
GpsuValue ==
    /\ InLoop("GPSU")
    /\ data' = StoreSession(data, current_data)
    /\ LET data_length == cur.val_size * cur.num_values
       IN  \E got \in Avail(data_length) :
             /\ Read("GPSU", data_length, got)
             /\ \/ /\ Raise("ValueError")
                   /\ UNCHANGED <<cur, current_data, okay_to_record>>
                \/ /\ got >= MinStampLen
                   /\ \E t \in Stamps :
                        /\ current_data' = [timestamp |-> strptime(t), gps_data |-> <<>>]
                        /\ cur' = Advance(got)
                        /\ scen' = ScenValue(t)
                   /\ okay_to_record' = Recompute(gps_fix, gps_accuracy)
                   /\ UNCHANGED <<pc, err>>
    /\ UNCHANGED <<nrec, scales, gps_fix, gps_accuracy, csv_data, scal_seen>>
    /\ UNCHANGED caller

\* Lines 96-99 and 109: one value of a GPSF record; '>I' takes four bytes.
GpsfValue ==
    /\ InLoop("GPSF")
    /\ \E got \in Avail(cur.val_size) :
         /\ Read("GPSF", cur.val_size, got)
         /\ IF got # 4
            THEN /\ Raise("struct.error")
                 /\ UNCHANGED <<cur, gps_fix, okay_to_record>>
            ELSE \E v \in FixVals :
                   /\ gps_fix' = v
                   /\ cur' = Advance(got)
                   /\ okay_to_record' = Recompute(v, gps_accuracy)
                   /\ scen' = ScenValue(v)
                   /\ UNCHANGED <<pc, err>>
    /\ UNCHANGED <<nrec, scales, gps_accuracy, data, current_data, csv_data, scal_seen>>
    /\ UNCHANGED caller

\* Lines 100-103 and 109: one value of a GPSP record; '>H' takes two bytes.
GpspValue ==
    /\ InLoop("GPSP")
    /\ \E got \in Avail(cur.val_size) :
         /\ Read("GPSP", cur.val_size, got)
         /\ IF got # 2
            THEN /\ Raise("struct.error")
                 /\ UNCHANGED <<cur, gps_accuracy, okay_to_record>>
            ELSE \E v \in AccVals :
                   /\ gps_accuracy' = v
                   /\ cur' = Advance(got)
                   /\ okay_to_record' = Recompute(gps_fix, v)
                   /\ scen' = ScenValue(v)
                   /\ UNCHANGED <<pc, err>>
    /\ UNCHANGED <<nrec, scales, gps_fix, data, current_data, csv_data, scal_seen>>
    /\ UNCHANGED caller

\* Lines 104-109: one value of a record of any other label is read and
\* dropped; a short read raises nothing.
SkipValue ==
    /\ pc = "values"
    /\ cur.label \notin {"SCAL", "GPS5", "GPSU", "GPSF", "GPSP"}
    /\ cur.idx < cur.num_values
    /\ \E got \in Avail(cur.val_size) :
         /\ Read("skip", cur.val_size, got)
         /\ cur' = Advance(got)
    /\ okay_to_record' = Recompute(gps_fix, gps_accuracy)
    /\ UNCHANGED <<pc, nrec, scales, gps_fix, gps_accuracy, data, current_data,
                   csv_data, err, scen, scal_seen>>
    /\ UNCHANGED caller

\* Lines 111-115: after the last value the reader skips to the next four byte
\* chunk, and the loop goes on with the next header.
Pad ==
    /\ pc = "values"
    /\ cur.idx = cur.num_values
    /\ LET mod == (cur.val_size * cur.num_values) % 4
       IN  IF mod # 0
           THEN \E got \in Avail(4 - mod) : Read("pad", 4 - mod, got)
           ELSE /\ last' = Last("pad", 0, 0)
                /\ UNCHANGED <<pos, eof>>
    /\ pc' = "header"
    /\ scen' = ScenPad
    /\ UNCHANGED <<nrec, cur, scales, gps_fix, gps_accuracy, okay_to_record,
                   data, current_data, csv_data, err, scal_seen>>
    /\ UNCHANGED caller
\* ---------------------------------------------------- timestamp interpolator
\* Lines 121-129: the start time of row index (from 1) of d.
StartTime(d, index) ==
    IF "timestamp" \in DOMAIN d[index]
    THEN [err |-> "none", t |-> d[index].timestamp]
    ELSE IF index # 1 THEN [err |-> "KeyError", t |-> 0]
    ELSE IF Len(d) < 2 THEN [err |-> "IndexError", t |-> 0]
    ELSE IF "timestamp" \notin DOMAIN d[2] THEN [err |-> "KeyError", t |-> 0]
    ELSE [err |-> "none", t |-> d[2].timestamp - Second]

\* Lines 130-133 without the second added after the last row.
EndTimeNoSecond(d, index, start_time) ==
    IF index = Len(d) THEN start_time ELSE d[index + 1].timestamp

\* Lines 130-133 with one second added after every row, the last or not.
EndTimeOneSecond(d, index, start_time) == start_time + Second

\* Lines 130-133: the end time of row index of d.
EndTime(d, index, start_time) ==
    IF index = Len(d) THEN start_time + Second ELSE d[index + 1].timestamp

\* Line 134.
Step(start_time, end_time, n) == DivideAndRound(end_time - start_time, n)

\* Lines 135-137: the points of one row.
RowPoints(row, start_time, step) ==
    [j \in 1 .. Len(row.gps_data) |->
        [latitude  |-> row.gps_data[j].latitude,
         longitude |-> row.gps_data[j].longitude,
         speedmps  |-> row.gps_data[j].speedmps,
         timestamp |-> start_time + (j - 1) * step]]

\* Lines 119-138: the rows of d from index on, appended to acc.
RECURSIVE Interpolate(_, _, _)
Interpolate(d, index, acc) ==
    IF index > Len(d) THEN [err |-> "none", csv_data |-> acc]
    ELSE LET st == StartTime(d, index)
         IN  IF st.err # "none" THEN [err |-> st.err, csv_data |-> <<>>]
             ELSE IF index # Len(d) /\ "timestamp" \notin DOMAIN d[index + 1]
                  THEN [err |-> "KeyError", csv_data |-> <<>>]
             ELSE IF "gps_data" \notin DOMAIN d[index]
                  THEN [err |-> "KeyError", csv_data |-> <<>>]
             ELSE IF Len(d[index].gps_data) = 0
                  THEN [err |-> "ZeroDivisionError", csv_data |-> <<>>]
             ELSE LET end_time == EndTime(d, index, st.t)
                      step == Step(st.t, end_time, Len(d[index].gps_data))
                  IN  Interpolate(d, index + 1,
                                  acc \o RowPoints(d[index], st.t, step))

\* Lines 46-50 and 117-138: the label or the description cannot be read in
\* full, unpack raises struct.error and the loop ends; the sessions stored in
\* data are turned into points and returned.
EndOfStream ==
    /\ pc = "header"
    /\ \E got \in Avail(label_length + desc_length) :
        /\ got < label_length + desc_length
        /\ pos' = Move(pos, got)
        /\ last' = Last("header", label_length + desc_length, got)
    /\ eof' = TRUE
    /\ LET r == Interpolate(data, 1, <<>>)
       IN  IF r.err # "none"
           THEN /\ Raise(r.err)
                /\ UNCHANGED csv_data
           ELSE /\ csv_data' = r.csv_data
                /\ pc' = "done"
                /\ UNCHANGED <<err, scen>>
    /\ UNCHANGED <<nrec, cur, scales, gps_fix, gps_accuracy,
                   okay_to_record, data, current_data, scal_seen>>
    /\ UNCHANGED caller

Next ==
    \/ ReadHeaderZero
    \/ ReadHeaderEmpt
    \/ ReadHeaderRecord
    \/ ScalValue
    \/ Gps5Value
    \/ GpsuValue
    \/ GpsfValue
    \/ GpspValue
    \/ SkipValue
    \/ Pad
    \/ EndOfStream

Spec == Init /\ [][Next]_vars

\* ------------------------------------------- the interpolator on its own
\* Start times of the stored sessions, in microseconds.
InterpStamps == {0, 2, 3, 2 * Second}

\* A sample as the record loop stores it.
OneSample == [latitude  |-> Frac(100000, 1),
              longitude |-> Frac(200000, 1),
              speedmps  |-> Frac(500, 1)]

\* The sessions the record loop stores: a start time and at least one sample.
Sessions ==
    { [timestamp |-> t, gps_data |-> [j \in 1 .. k |-> OneSample]] :
        t \in InterpStamps, k \in 1 .. MaxSamples }

RECURSIVE SessionLists(_)
SessionLists(n) ==
    IF n = 0 THEN { <<>> }
    ELSE SessionLists(n - 1)
         \cup { Append(d, x) : d \in {l \in SessionLists(n - 1) : Len(l) = n - 1},
                               x \in Sessions }

\* The record loop has stored the sessions of data and the stream is at its
\* end.
InitInterp ==
    /\ pc = "header"
    /\ pos = 0
    /\ eof = TRUE
    /\ nrec = 0
    /\ cur = NoRecord
    /\ scales = <<1, 1, 1, 1>>
    /\ gps_fix = 3
    /\ gps_accuracy = 100
    /\ okay_to_record = TRUE
    /\ data \in SessionLists(MaxSessions)
    /\ current_data = [timestamp |-> 0, gps_data |-> <<>>]
    /\ csv_data = <<>>
    /\ err = "none"
    /\ last = Last("init", 0, 0)
    /\ scal_seen = <<1, 1, 1, 1>>
    /\ scen = -1
    /\ NoCaller

NextInterp == EndOfStream

SpecInterp == InitInterp /\ [][NextInterp]_vars
\* ------------------------------------------------ one call after another
\* Lines 24-44: gopro_binary_to_csv is called again, on another stream, after
\* a call that returned; every local is made anew.
CallKeepsScales ==
    /\ pc = "done"
    /\ pc' = "header"
    /\ pos' = 0
    /\ eof' = FALSE
    /\ nrec' = 0
    /\ cur' = NoRecord
    /\ gps_fix' = 0
    /\ gps_accuracy' = 9999
    /\ okay_to_record' = FALSE
    /\ data' = <<>>
    /\ current_data' = EmptyDict
    /\ csv_data' = <<>>
    /\ err' = "none"
    /\ last' = Last("init", 0, 0)
    /\ scal_seen' = <<1, 1, 1, 1>>
    /\ scen' = 0
    /\ again' = TRUE
    /\ UNCHANGED <<scales, argv, mpc, video, points, fd, merr>>

Call ==
    /\ pc = "done"
    /\ pc' = "header"
    /\ pos' = 0
    /\ eof' = FALSE
    /\ nrec' = 0
    /\ cur' = NoRecord
    /\ scales' = <<1, 1, 1, 1>>
    /\ gps_fix' = 0
    /\ gps_accuracy' = 9999
    /\ okay_to_record' = FALSE
    /\ data' = <<>>
    /\ current_data' = EmptyDict
    /\ csv_data' = <<>>
    /\ err' = "none"
    /\ last' = Last("init", 0, 0)
    /\ scal_seen' = <<1, 1, 1, 1>>
    /\ scen' = 0
    /\ again' = TRUE
    /\ UNCHANGED <<argv, mpc, video, points, fd, merr>>

NextFiles ==
    \/ Next
    \/ Call

SpecFiles == Init /\ [][NextFiles]_vars

\* ------------------------------------------------------------- make_gpx
\* Lines 150-157 with each coordinate under the attribute of its own name.
trkptUnswapped(p) ==
    [tag |-> "trkpt", lat |-> p.latitude, lon |-> p.longitude,
     time |-> strftime(p.timestamp)]

\* Lines 150-157: the line printed for point p.  An attribute holds the text
\* of the float, which names the float; the model keeps the value.
trkpt(p) ==
    [tag |-> "trkpt", lat |-> p.longitude, lon |-> p.latitude,
     time |-> strftime(p.timestamp)]

\* Lines 140-164: what make_gpx prints: the opening of the document, one
\* line per point, the closing.
make_gpx(pts) ==
    << [tag |-> "head"] >>
        \o [j \in 1 .. Len(pts) |-> trkpt(pts[j])]
        \o << [tag |-> "foot"] >>

\* No call of gopro_binary_to_csv is under way.
NotCalled ==
    /\ pc = "idle"
    /\ pos = 0
    /\ eof = FALSE
    /\ nrec = 0
    /\ cur = NoRecord
    /\ scales = <<1, 1, 1, 1>>
    /\ gps_fix = 0
    /\ gps_accuracy = 9999
    /\ okay_to_record = FALSE
    /\ data = <<>>
    /\ current_data = EmptyDict
    /\ csv_data = <<>>
    /\ err = "none"
    /\ last = Last("init", 0, 0)
    /\ scal_seen = <<1, 1, 1, 1>>
    /\ scen = -1

\* Timestamps of the points handed to make_gpx, in microseconds.
GpxStamps == {0, 500000, 2 * Second}

\* The points gopro_binary_to_csv returns.
GpxPoints ==
    { [latitude  |-> Frac(raw[1], 1),
       longitude |-> Frac(raw[2], 1),
       speedmps  |-> Frac(raw[4], 1),
       timestamp |-> t] : raw \in Raws, t \in GpxStamps }

RECURSIVE PointLists(_)
PointLists(n) ==
    IF n = 0 THEN { <<>> }
    ELSE PointLists(n - 1)
         \cup { Append(l, x) : l \in {k \in PointLists(n - 1) : Len(k) = n - 1},
                               x \in GpxPoints }

\* make_gpx is handed a list of points and a file opened for writing.
InitGpx ==
    /\ NotCalled
    /\ again = FALSE
    /\ argv = <<>>
    /\ mpc = "make_gpx"
    /\ video = 0
    /\ points \in PointLists(MaxPoints)
    /\ fd = [opened |-> TRUE, text |-> <<>>]
    /\ merr = "none"

\* Lines 140-164.
MakeGpx ==
    /\ mpc = "make_gpx"
    /\ fd' = [fd EXCEPT !.text = @ \o make_gpx(points)]
    /\ mpc' = "done"
    /\ UNCHANGED <<vars_locals, again, argv, video, points, merr>>

NextGpx == MakeGpx

SpecGpx == InitGpx /\ [][NextGpx]_vars

\* ------------------------------------------------------------- __main__
\* sys.argv[0]
Script == "gopro2gpx.py"

\* The paths the command line may name.
Paths == {"a.mp4", "b.mp4", "out.gpx"}

RECURSIVE ArgLists(_)
ArgLists(n) ==
    IF n = 0 THEN { <<>> }
    ELSE ArgLists(n - 1)
         \cup { Append(l, x) : l \in {k \in ArgLists(n - 1) : Len(k) = n - 1},
                               x \in Paths }

\* Lines 20-22 and 45-115: the sessions the record loop stores from the
\* telemetry ffmpeg extracts from a file; b.mp4 was recorded before a.mp4,
\* and out.gpx is no video: ffmpeg writes nothing and the stream is empty.
StoredSessions(path) ==
    IF path = "a.mp4"
    THEN << [timestamp |-> 2 * Second,
             gps_data |-> << [latitude  |-> Frac(100000, 1),
                              longitude |-> Frac(200000, 1),
                              speedmps  |-> Frac(500, 1)] >>] >>
    ELSE IF path = "b.mp4"
    THEN << [timestamp |-> 0,
             gps_data |-> << [latitude  |-> Frac(100010, 1),
                              longitude |-> Frac(200010, 1),
                              speedmps  |-> Frac(520, 1)],
                             [latitude  |-> Frac(100000, 1),
                              longitude |-> Frac(200000, 1),
                              speedmps  |-> Frac(500, 1)] >>] >>
    ELSE <<>>

\* gopro_binary_to_csv(dump_metadata(path)): the exception raised ("none"
\* when there is none) and the points returned.
Parse(path) == Interpolate(StoredSessions(path), 1, <<>>)

\* The names bound in the module when line 175 runs: the imports, FFMPEG,
\* the three functions, points and the loop variable.
Globals ==
    {"datetime", "struct", "sys", "Popen", "PIPE", "BytesIO", "FFMPEG",
     "dump_metadata", "gopro_binary_to_csv", "make_gpx", "points", "video"}

\* Line 175: the name whose value is handed to dump_metadata.
VideoName == "VIDEO"

\* The value a name of the module has while the loop is at place v of av.
ValueOf(name, av, v) == IF name = "video" THEN av[v] ELSE name

\* Line 175: gopro_binary_to_csv(dump_metadata(VIDEO)) with the loop at place
\* v of av: a name that is not bound raises NameError, a value that is no
\* path makes Popen raise TypeError.
Line175(av, v) ==
    IF VideoName \notin Globals THEN [err |-> "NameError", csv_data |-> <<>>]
    ELSE IF ValueOf(VideoName, av, v) \notin Paths
         THEN [err |-> "TypeError", csv_data |-> <<>>]
    ELSE Parse(ValueOf(VideoName, av, v))

\* Line 175 inside a try that passes over the exception.
ExtendSkipping(r, pts) ==
    IF r.err # "none"
    THEN [mpc |-> "loop", merr |-> r.err, points |-> pts]
    ELSE [mpc |-> "loop", merr |-> "none", points |-> pts \o r.csv_data]

\* Line 175: an exception leaves the loop and ends the run; otherwise the
\* points are appended and the loop goes on.
Extend(r, pts) ==
    IF r.err # "none"
    THEN [mpc |-> "error", merr |-> r.err, points |-> pts]
    ELSE [mpc |-> "loop", merr |-> "none", points |-> pts \o r.csv_data]

\* The script is started with up to MaxArgs arguments.
InitMain ==
    /\ NotCalled
    /\ again = FALSE
    /\ argv \in { <<Script>> \o a : a \in ArgLists(MaxArgs) }
    /\ mpc = "main"
    /\ video = 0
    /\ points = <<>>
    /\ fd = NotOpened
    /\ merr = "none"

\* Lines 167-169: too few arguments; the usage is printed and the script
\* exits with status 1.
Usage ==
    /\ mpc = "main"
    /\ Len(argv) < 3
    /\ mpc' = "exit"
    /\ UNCHANGED <<vars_locals, again, argv, video, points, fd, merr>>

\* Lines 172-173: points is created and the loop starts at sys.argv[1].
MainStart ==
    /\ mpc = "main"
    /\ ~(Len(argv) < 3)
    /\ points' = <<>>
    /\ video' = 2
    /\ mpc' = "loop"
    /\ UNCHANGED <<vars_locals, again, argv, fd, merr>>

\* Lines 173-180: the loop over sys.argv[1:len(sys.argv)-1] (places 2 to
\* Len(argv) - 1 here); after the last video the output file is opened and
\* make_gpx writes the points.
MainLoop ==
    /\ mpc = "loop"
    /\ IF video <= Len(argv) - 1
       THEN LET n == Extend(Line175(argv, video), points)
            IN  /\ mpc' = n.mpc
                /\ merr' = n.merr
                /\ points' = n.points
                /\ video' = IF n.mpc = "loop" THEN video + 1 ELSE video
                /\ UNCHANGED fd
       ELSE /\ fd' = [opened |-> TRUE, text |-> make_gpx(points)]
            /\ mpc' = "done"
            /\ UNCHANGED <<merr, points, video>>
    /\ UNCHANGED <<vars_locals, again, argv>>

NextMain ==
    \/ Usage
    \/ MainStart
    \/ MainLoop

SpecMain == InitMain /\ [][NextMain]_vars
\* ==================================================================== claims
\* The session current_data holds samples.
HasSession(cd) == DOMAIN cd # {}

SamplesOf(cd) == IF HasSession(cd) THEN cd.gps_data ELSE <<>>

\* This step read one GPS5 value in full and raised nothing.
Gps5Read ==
    /\ InLoop("GPS5")
    /\ last'.op = "GPS5"
    /\ last'.got = Gps5Size
    /\ pc' # "error"

\* This step appended one sample to the current session.
SampleAppended ==
    /\ HasSession(current_data)
    /\ HasSession(current_data')
    /\ Len(current_data'.gps_data) = Len(current_data.gps_data) + 1

ScalesUsable ==
    /\ Len(scales) >= 4
    /\ scales[1] # 0 /\ scales[2] # 0 /\ scales[4] # 0

\* C2: a GPS5 value read in full while the gate passes and no session exists
\* yet is dropped: nothing is recorded, nothing is raised, and the loop goes on.
DropBeforeSession ==
    [][(/\ InLoop("GPS5")
        /\ Gps5SizeOk(cur.val_size)
        /\ okay_to_record
        /\ ScalesUsable
        /\ ~HasSession(current_data)
        /\ last'.op = "GPS5"
        /\ last'.got = Gps5Size)
       => (/\ pc' = "values"
           /\ err' = "none"
           /\ ~HasSession(current_data')
           /\ data' = data)]_vars

\* C3: a stream that ends inside a record header or a record payload never
\* ends the parse with an error: no step whose read came back short raises.
TruncationNeverFatal == ~(pc = "error" /\ last.got < last.want)

\* The samples of the sessions of d, in order.
RECURSIVE Flatten(_)
Flatten(d) == IF d = <<>> THEN <<>> ELSE Head(d).gps_data \o Flatten(Tail(d))

\* A point without its timestamp.
Coordinates(p) ==
    [latitude |-> p.latitude, longitude |-> p.longitude, speedmps |-> p.speedmps]

\* C4: when the parse returns, the points are the samples appended to the
\* stored sessions and to the session current at the end of the stream, one
\* point per sample, in session-then-sample order.
AllCollectedUsed ==
    pc = "done" =>
        [j \in 1 .. Len(csv_data) |-> Coordinates(csv_data[j])]
            = Flatten(data) \o SamplesOf(current_data)

\* This step read one GPSU value.
GpsuRead == InLoop("GPSU") /\ last'.op = "GPSU"

\* C5: every stored session holds at least one sample, and a GPSU value read
\* while the current session holds no sample stores nothing.
SessionDiscard ==
    /\ [](\A i \in 1 .. Len(data) : Len(data[i].gps_data) >= 1)
    /\ [][(GpsuRead /\ HasSession(current_data) /\ current_data.gps_data = <<>>)
          => data' = data]_vars

\* C5: a later value of a GPSU record was read while the session opened by
\* the value before it held no sample, and the list holds the one session
\* stored earlier.
SessionDiscardWitness ==
    /\ last.op = "GPSU"
    /\ pc = "values"
    /\ cur.idx >= 2
    /\ Len(data) = 1

\* C6: after every record processed in full without an error, the payload
\* bytes read are val_size * num_values and the reader stands on a multiple
\* of four.
AlignmentInvariant ==
    (pc = "header" /\ nrec > 0 /\ ~eof) =>
        /\ cur.consumed = cur.val_size * cur.num_values
        /\ pos = 0
\* The round trip scenario was read, the stream ended and the parse returned.
ScenarioDone == pc = "done" /\ scen = Len(Scenario)

\* C7 as stated: the scenario yields exactly two points, lat 1.0, lon 2.0 at
\* 2021-06-15T12:00:00Z and lat 1.0001, lon 2.0001 at 2021-06-15T12:00:01Z.
RoundTripScenario ==
    ScenarioDone =>
        /\ Len(csv_data) = 2
        /\ csv_data[1].latitude = Frac(1, 1)
        /\ csv_data[1].longitude = Frac(2, 1)
        /\ strftime(csv_data[1].timestamp) = [h |-> 12, m |-> 0, s |-> 0]
        /\ csv_data[2].latitude = Frac(10001, 10000)
        /\ csv_data[2].longitude = Frac(20001, 10000)
        /\ strftime(csv_data[2].timestamp) = [h |-> 12, m |-> 0, s |-> 1]

\* C7 as amended: the scenario yields exactly two points, lat 100000.0,
\* lon 200000.0 at 12:00:00.000000 and lat 100010.0, lon 200010.0 at
\* 12:00:00.500000, both written as 2021-06-15T12:00:00Z: the session opened
\* by the second GPSU is never stored, so the samples are spread over the one
\* second after the first GPSU.
RoundTripAmended ==
    ScenarioDone =>
        /\ Len(csv_data) = 2
        /\ csv_data[1].latitude = Frac(100000, 1)
        /\ csv_data[1].longitude = Frac(200000, 1)
        /\ csv_data[1].timestamp = 0
        /\ strftime(csv_data[1].timestamp) = [h |-> 12, m |-> 0, s |-> 0]
        /\ csv_data[2].latitude = Frac(100010, 1)
        /\ csv_data[2].longitude = Frac(200010, 1)
        /\ csv_data[2].timestamp = 500000
        /\ strftime(csv_data[2].timestamp) = [h |-> 12, m |-> 0, s |-> 0]

\* C7: the scenario was parsed to its end.
RoundTripWitness == ScenarioDone /\ Len(csv_data) = 2

\* The current record is a SCAL or GPS5 record of a size the code rejects.
BadSize ==
    /\ cur.data_type # "0"
    /\ \/ cur.label = "SCAL" /\ cur.val_size \notin {2, 4}
       \/ cur.label = "GPS5" /\ cur.val_size # 20

\* The current record has had none of its values read, or the run has ended
\* with the Exception the code raises and without points.
RejectedRecord ==
    \/ pc = "values" /\ cur.idx = 0 /\ cur.consumed = 0
    \/ pc = "error" /\ err = "Exception" /\ csv_data = <<>>

\* C9 as stated: a SCAL record whose val_size is not 2 or 4 and a GPS5 record
\* whose val_size is not 20 abort the parse, whatever the count, 0 included.
MalformedSizeFatal == BadSize => RejectedRecord

\* C9 as amended: such a record aborts the parse when its count is at least 1.
MalformedSizeFatalAmended == (BadSize /\ cur.num_values >= 1) => RejectedRecord

\* C9: a record of a rejected size ended the run.
MalformedSizeWitness ==
    /\ BadSize
    /\ cur.num_values >= 1
    /\ pc = "error"
    /\ err = "Exception"

\* No SCAL record is being read.
ScalesSettled == pc \in {"header", "done"} \/ cur.label # "SCAL"

\* The sample the code makes of a GPS5 value under the scales scl.
Scaled(raw, scl) ==
    [latitude  |-> Frac(raw[1], scl[1]),
     longitude |-> Frac(raw[2], scl[2]),
     speedmps  |-> Frac(raw[4], scl[4])]

\* C10: outside a SCAL record the scales are the values of the last SCAL
\* record of the stream ([1,1,1,1] before any); every step that is not part
\* of a SCAL record leaves them alone; and every sample recorded is the GPS5
\* value divided by entries 0, 1 and 3 of that record.
ScalePersistence ==
    /\ [](ScalesSettled => scales = scal_seen)
    /\ [][cur'.label # "SCAL" => scales' = scales]_vars
    /\ [][(Gps5Read /\ SampleAppended) =>
            \E raw \in Raws :
                current_data'.gps_data[Len(current_data'.gps_data)]
                    = Scaled(raw, scal_seen)]_vars

\* C10: a sample was recorded under the scales of a SCAL record read earlier
\* in the stream.
ScalePersistenceWitness ==
    /\ pc = "values"
    /\ last.op = "GPS5"
    /\ scal_seen = <<10, 100, 1, 1000>>
    /\ Len(SamplesOf(current_data)) >= 1
    /\ \E raw \in Raws : current_data.gps_data[1] = Scaled(raw, <<10, 100, 1, 1000>>)
\* The number of samples in the sessions of d before session i.
RECURSIVE Before(_, _)
Before(d, i) == IF i = 1 THEN 0 ELSE Before(d, i - 1) + Len(d[i - 1].gps_data)

\* The end of the span of session i of d.
SpanEnd(d, i) ==
    IF i < Len(d) THEN d[i + 1].timestamp ELSE d[i].timestamp + Second

\* s is span / k rounded to a whole number, ties to the even one.
IsRounded(s, span, k) ==
    /\ 2 * Abs(k * s - span) <= k
    /\ 2 * Abs(k * s - span) = k => s % 2 = 0

\* The timestamp given to sample j (from 0) of session i.
StampOf(i, j) == csv_data[Before(data, i) + j + 1].timestamp

\* The step between the samples of session i, read off the points.
StepOf(i) ==
    IF Len(data[i].gps_data) >= 2
    THEN StampOf(i, 1) - StampOf(i, 0)
    ELSE DivideAndRound(SpanEnd(data, i) - data[i].timestamp, 1)

\* Sample j of session i is stamped start + j * step, the step being the
\* span over the number of samples, rounded once to a whole microsecond.
StampsSpread(i) ==
    LET k == Len(data[i].gps_data)
        start == data[i].timestamp
    IN  /\ IsRounded(StepOf(i), SpanEnd(data, i) - start, k)
        /\ \A j \in 0 .. k - 1 : StampOf(i, j) = start + j * StepOf(i)

\* The last sample of session i is stamped before the end of the span.
LastBeforeEnd(i) == StampOf(i, Len(data[i].gps_data) - 1) < SpanEnd(data, i)

\* C8 as stated: for every stored session whose span ends after it starts,
\* the samples are stamped start + j * step and the last one before the end.
InterpolationBoundary ==
    pc = "done" =>
        \A i \in 1 .. Len(data) :
            SpanEnd(data, i) > data[i].timestamp =>
                StampsSpread(i) /\ LastBeforeEnd(i)

\* C8 as amended: the samples are stamped start + j * step, and the last one
\* before the end when the span is longer than k * (k - 1) / 2 microseconds.
InterpolationBoundaryAmended ==
    pc = "done" =>
        \A i \in 1 .. Len(data) :
            LET k == Len(data[i].gps_data)
                span == SpanEnd(data, i) - data[i].timestamp
            IN  span > 0 =>
                    /\ StampsSpread(i)
                    /\ 2 * span > k * (k - 1) => LastBeforeEnd(i)

\* C8: three samples over a span of two microseconds were stamped, the last
\* one at the end of the span.
InterpolationWitness ==
    /\ pc = "done"
    /\ Len(data) = 2
    /\ Len(data[1].gps_data) = 3
    /\ data[2].timestamp - data[1].timestamp = 2
    /\ csv_data[3].timestamp = data[2].timestamp

\* The start times of the sessions of d increase strictly.
StrictlyIncreasing(d) ==
    \A i \in 1 .. Len(d) - 1 : d[i].timestamp < d[i + 1].timestamp

\* The timestamps of the returned points never decrease.
NonDecreasing ==
    \A j \in 1 .. Len(csv_data) - 1 :
        csv_data[j].timestamp <= csv_data[j + 1].timestamp

\* Every session of d but the last spans at least k * (k - 1) / 2
\* microseconds, k being the number of its samples.
Roomy(d) ==
    \A i \in 1 .. Len(d) - 1 :
        LET k == Len(d[i].gps_data)
        IN  2 * (d[i + 1].timestamp - d[i].timestamp) >= k * (k - 1)

\* C18 as stated: when the start times of the sessions increase strictly, the
\* timestamps of the returned points never decrease.
TimestampsMonotone ==
    (pc = "done" /\ StrictlyIncreasing(data)) => NonDecreasing

\* C18 as amended: they never decrease when, besides, every session but the
\* last spans at least k * (k - 1) / 2 microseconds for its k samples.
TimestampsMonotoneAmended ==
    (pc = "done" /\ StrictlyIncreasing(data) /\ Roomy(data)) => NonDecreasing

\* C18: two sessions two seconds apart, the first of three samples, were
\* turned into points.
TimestampsMonotoneWitness ==
    /\ pc = "done"
    /\ Len(data) = 2
    /\ Len(data[1].gps_data) = 3
    /\ data[2].timestamp - data[1].timestamp = 2 * Second
    /\ Len(csv_data) = 3 + Len(data[2].gps_data)
    /\ csv_data[3].timestamp < csv_data[4].timestamp

\* C15: after any sequence of records the scales hold exactly four divisors,
\* and no sample that passes the gate finds entry 0, 1 or 3 missing.
ScaleSetShape ==
    /\ ScalesSettled => Len(scales) = 4
    /\ err # "IndexError"

\* The interpolation raised: the last read is the header read that ended the
\* record loop.
InterpolationRaised == pc = "error" /\ last.op = "header"

\* C17: every stored session has a start timestamp, the current session is
\* the empty one of line 44 or has a start timestamp too, and the
\* interpolation never raises.
SessionsStamped ==
    /\ \A i \in 1 .. Len(data) : "timestamp" \in DOMAIN data[i]
    /\ HasSession(current_data) => "timestamp" \in DOMAIN current_data
    /\ ~InterpolationRaised

\* C17: the stream ended with the empty session of line 44 replaced by a
\* GPSU record, a session stored, and its samples turned into points.
SessionsStampedWitness ==
    /\ pc = "done"
    /\ Len(data) >= 1
    /\ Len(csv_data) = Len(data[1].gps_data)

\* The points parsed from the videos at places v and after of av, in the
\* order of the command line.
RECURSIVE ParsedFrom(_, _)
ParsedFrom(av, v) ==
    IF v > Len(av) - 1 THEN <<>>
    ELSE Parse(av[v]).csv_data \o ParsedFrom(av, v + 1)

\* Every video of av parses without an error.
AllParse(av) == \A v \in 2 .. Len(av) - 1 : Parse(av[v]).err = "none"

\* C11: a run on two or more input files that parse, followed by an output
\* path, ends with the output holding the points of the first file, then
\* those of the second, and so on, whatever their timestamps.
MultiFileConcatenation ==
    (mpc \in {"done", "error"} /\ Len(argv) >= 4 /\ AllParse(argv)) =>
        /\ fd.opened
        /\ fd.text = make_gpx(ParsedFrom(argv, 2))

\* C12: a run that an exception ended has not opened the output file, and an
\* output file that was opened was opened after the loop went through every
\* input without an exception.
NoPartialOutput ==
    /\ merr # "none" => fd = NotOpened
    /\ fd.opened => (mpc = "done" /\ merr = "none" /\ video = Len(argv))

\* C12: a run on two input files was ended by an exception raised while the
\* first was processed, and the output file is not opened.
NoPartialOutputWitness ==
    /\ mpc = "error"
    /\ merr # "none"
    /\ Len(argv) = 4
    /\ video = 2
    /\ fd = NotOpened

\* C14: make_gpx prints one trkpt line per point, in the order of the points,
\* between the opening and the closing of the document; the lat attribute
\* holds the longitude of the point and the lon attribute its latitude.
TrackSerialization ==
    mpc = "done" =>
        /\ Len(fd.text) = Len(points) + 2
        /\ fd.text[1].tag = "head"
        /\ fd.text[Len(fd.text)].tag = "foot"
        /\ \A j \in 1 .. Len(points) :
             /\ fd.text[j + 1].tag = "trkpt"
             /\ fd.text[j + 1].lat = points[j].longitude
             /\ fd.text[j + 1].lon = points[j].latitude

\* C14: two points that differ were written, the first one first.
TrackSerializationWitness ==
    /\ mpc = "done"
    /\ Len(points) = 2
    /\ points[1].latitude # points[2].latitude
    /\ fd.text[2].lat = points[1].longitude
    /\ fd.text[3].lat = points[2].longitude

\* The locals of lines 37-44 hold their defaults.
Defaults ==
    /\ scales = <<1, 1, 1, 1>>
    /\ gps_fix = 0
    /\ gps_accuracy = 9999
    /\ okay_to_record = FALSE
    /\ current_data = EmptyDict
    /\ data = <<>>

\* C16: whatever streams were parsed before, a call that has read no record
\* yet holds the defaults; the scales are at every moment those of the last
\* SCAL record of the stream being parsed ([1,1,1,1] before any); and the
\* round trip scenario parsed after another stream returns the two points it
\* returns when parsed alone.
PerFileReset ==
    /\ (pc = "header" /\ nrec = 0) => Defaults
    /\ ScalesSettled => scales = scal_seen
    /\ (again /\ ScenarioDone) =>
           csv_data = << [latitude  |-> Frac(100000, 1),
                          longitude |-> Frac(200000, 1),
                          speedmps  |-> Frac(500, 1),
                          timestamp |-> 0],
                         [latitude  |-> Frac(100010, 1),
                          longitude |-> Frac(200010, 1),
                          speedmps  |-> Frac(520, 1),
                          timestamp |-> 500000] >>

\* C16: the round trip scenario was parsed to its end by a call made after
\* another stream was parsed.
PerFileResetWitness == again /\ ScenarioDone /\ Len(csv_data) = 2
====
